---- MODULE Spec2Model ----
(***************************************************************************)
(* Model of the per-source buffering/playback coordinator of syng          *)
(* (src/syng/sources/source.py, class Source).                             *)
(*                                                                         *)
(* The coordinator runs on one asyncio event loop: a coroutine runs        *)
(* without interruption from one suspension point to the next.  Every      *)
(* action below is one such uninterrupted run.  The suspension points of   *)
(* the code are: waiting for _masterlock when it is taken, `await          *)
(* buffer_task`, `await ready.wait()` on an unset event, `await            *)
(* self.play_mpv(...)` (creation of the subprocess, with the lock held)    *)
(* and `await self.player.wait()`.                                         *)
(*                                                                         *)
(* Spec is the coordinator under calls of buffer, ensure_playable, play    *)
(* and skip_current.  ClientSpec drives it through the handlers of the     *)
(* client (src/syng/client.py), PlaySkipSpec through handle_play and       *)
(* skip_current(entry), StreamSpec through YoutubeSource.play of a source  *)
(* with start_streaming (src/syng/sources/youtube.py).                     *)
(* StuckSpec is the coordinator, run by the event loop, with a backend     *)
(* whose fetch of one identifier never ends.  ParseSpec applies            *)
(* Result.from_filename (src/syng/result.py) to a set of filenames.        *)
(***************************************************************************)
EXTENDS Integers, Sequences, FiniteSets, TLC

\* Number of callers of buffer / ensure_playable / play that run concurrently.
NumCallers == 2
\* Number of calls (of any of the four operations) made in a run.
MaxCalls == 4
\* Number of skip_current calls that can be queued for the lock at a time.
MaxQueuedSkips == 1
\* Number of fetch tasks (asyncio.create_task(self.do_buffer(entry))) created in a run.
MaxTasks == 4

Procs == 1..NumCallers
Tasks == 1..MaxTasks
Idents == {"A", "B"}
NoProc == 0
NoTask == 0
NoIdent == "-"

VARIABLES
    downloaded_files,   \* Source.downloaded_files: ident -> DLFilesEntry (present = key is in the dict)
    buffer_tasks,       \* the asyncio tasks created by buffer(): ident and status
    masterlock,         \* Source._masterlock: the caller holding it, or NoProc
    lock_waiters,       \* calls suspended in _masterlock.acquire(), in arrival order
    player,             \* Source.player: the caller whose mpv process it references, or NoProc
    skip_next,          \* Source._skip_next
    mpv,                \* the mpv subprocess launched by each caller's play(), until play() is over
    call,               \* per caller: the running call, its position and its Entry
    calls_made,         \* number of calls made so far
    skip_setters,       \* history: the identifiers whose skip_current set _skip_next
                        \* since it was last cleared
    filename,           \* the argument of a Result.from_filename call (result.py)
    result,             \* the Result the call has returned, or NoResult
    skip_result,        \* how the skip_current / handle_skip call that ran last ended
    current             \* client.state["current"]: TRUE when it references the source

vars == <<downloaded_files, buffer_tasks, masterlock, lock_waiters, player, skip_next, mpv, call,
          calls_made, skip_setters, filename, result, skip_result, current>>

\* No from_filename call has returned.
NoResult == [ident |-> <<>>, source |-> "none", title |-> <<>>, artist |-> <<>>, album |-> <<>>]

\* dataclass DLFilesEntry, default constructed.  A location is named by the
\* fetch task that produced it; 0 is the default "" / None.
DLFilesEntry ==
    [present |-> TRUE, ready |-> FALSE, video |-> 0, audio |-> 0,
     buffering |-> FALSE, complete |-> FALSE, failed |-> FALSE, buffer_task |-> NoTask]

\* The value standing for "key not in downloaded_files".
Missing == [DLFilesEntry EXCEPT !.present = FALSE]

\* defaultdict.__getitem__: self.downloaded_files[ident] inserts a default
\* record when the key is missing.  Returns the dict after the access.
Lookup(df, i) == IF df[i].present THEN df ELSE [df EXCEPT ![i] = DLFilesEntry]

\* A caller that has not made a call yet.
IdleCall ==
    [op |-> "none", ident |-> NoIdent, pc |-> "idle", skip |-> FALSE, result |-> "none",
     task |-> NoTask, video |-> 0, audio |-> 0, played |-> FALSE,
     skip_seen |-> "none", fetch |-> NoTask]

Init ==
    /\ downloaded_files = [i \in Idents |-> Missing]
    /\ buffer_tasks = [t \in Tasks |-> [ident |-> NoIdent, status |-> "unused"]]
    /\ masterlock = NoProc
    /\ lock_waiters = <<>>
    /\ player = NoProc
    /\ skip_next = FALSE
    /\ mpv = [p \in Procs |-> "none"]
    /\ call = [p \in Procs |-> IdleCall]
    /\ calls_made = 0
    /\ skip_setters = {}
    /\ filename = <<>>
    /\ result = NoResult
    /\ skip_result = "none"
    /\ current = FALSE

----------------------------------------------------------------------------
\* Helpers

\* asyncio.Lock.acquire returns without suspending only when the lock is
\* free and nobody is queued for it.
LockFree(w) == masterlock = NoProc /\ w = <<>>

UnusedTasks == {t \in Tasks : buffer_tasks[t].status = "unused"}

\* The task object asyncio.create_task returns: the next unused one.
NewTask == CHOOSE t \in UnusedTasks : \A u \in UnusedTasks : t <= u

\* An entry of the lock's queue: a caller inside buffer() or play(), or a
\* skip_current(i) call (proc = NoProc).
Waiter(p, i) == [proc |-> p, ident |-> i]

\* A coroutine ends: by return or by an exception leaving it.  Its locals
\* are gone; the outcome of the call that ended last is kept for inspection.
\* When play() returns to client.handle_play (line 65), the handler goes on
\* to emit "pop-then-get-next" (lines 68-69), and so it does when play()
\* raises an Exception (lines 66-67); an exception that is not an Exception
\* (CancelledError) leaves the handler.
Finish(cs, p, res) ==
    [q \in Procs |->
        IF q = p
        THEN IF cs[p].op = "handle_play/play" /\ res \in {"returned", "launch_error"}
             THEN [cs[p] EXCEPT !.pc = "emit_pop",
                                 !.task = NoTask, !.video = 0, !.audio = 0, !.fetch = NoTask]
             ELSE [cs[p] EXCEPT !.pc = "done", !.result = res,
                                 !.task = NoTask, !.video = 0, !.audio = 0, !.fetch = NoTask]
        ELSE IF cs[q].pc = "done" THEN IdleCall ELSE cs[q]]

\* asyncio.Event.set: every caller suspended in ready.wait() of this
\* identifier's record is scheduled to resume.
Wake(cs, i) ==
    [q \in Procs |->
        IF cs[q].pc = "wait_ready" /\ cs[q].ident = i
        THEN [cs[q] EXCEPT !.pc = "woken"] ELSE cs[q]]

\* Source.play, lines 240-249, entered with the lock acquired by p.  Line
\* 245: play_mpv (lines 113-138) suspends while the process is created, or
\* create_subprocess_exec raises at once (mpv cannot be started): the
\* exception leaves play(), `async with` releases the lock, self.player and
\* entry.skip are as before.
PlayLocked(p, df, cs, w) ==
    LET i == cs[p].ident
        d == Lookup(df, i)
    IN  IF skip_next
        THEN /\ skip_next' = FALSE
             /\ skip_setters' = {}
             /\ call' = Finish([cs EXCEPT ![p].skip = TRUE], p, "returned")
             /\ masterlock' = NoProc
             /\ lock_waiters' = w
             /\ downloaded_files' = df
        ELSE \/ /\ call' = [cs EXCEPT ![p].pc = "launching",
                                      ![p].video = d[i].video,
                                      ![p].audio = d[i].audio,
                                      ![p].fetch = NoTask]
                /\ masterlock' = p
                /\ lock_waiters' = w
                /\ downloaded_files' = d
                /\ UNCHANGED <<skip_next, skip_setters>>
             \/ /\ call' = Finish(cs, p, "launch_error")
                /\ masterlock' = NoProc
                /\ lock_waiters' = w
                /\ downloaded_files' = d
                /\ UNCHANGED <<skip_next, skip_setters>>

\* AfterEnsure with line 236 (`del self.downloaded_files[entry.ident]`) left
\* out: the failed record stays in the map.
AfterEnsure_KeepsFailed(p, df, cs, w) ==
    LET i == cs[p].ident
        d == Lookup(df, i)
    IN  IF cs[p].op = "ensure_playable"
        THEN /\ call' = Finish(cs, p, "returned")
             /\ downloaded_files' = df
             /\ lock_waiters' = w
             /\ UNCHANGED <<masterlock, skip_next, skip_setters>>
        ELSE IF d[i].failed
        THEN /\ downloaded_files' = d
             /\ call' = Finish(cs, p, "returned")
             /\ lock_waiters' = w
             /\ UNCHANGED <<masterlock, skip_next, skip_setters>>
        ELSE IF LockFree(w)
        THEN PlayLocked(p, d, cs, w)
        ELSE /\ call' = [cs EXCEPT ![p].pc = "acquire_play", ![p].fetch = NoTask]
             /\ lock_waiters' = Append(w, Waiter(p, i))
             /\ downloaded_files' = d
             /\ UNCHANGED <<masterlock, skip_next, skip_setters>>

\* Source.play, lines 235-239: ensure_playable has returned.
AfterEnsure(p, df, cs, w) ==
    LET i == cs[p].ident
        d == Lookup(df, i)
    IN  IF cs[p].op = "ensure_playable"
        THEN /\ call' = Finish(cs, p, "returned")
             /\ downloaded_files' = df
             /\ lock_waiters' = w
             /\ UNCHANGED <<masterlock, skip_next, skip_setters>>
        ELSE IF d[i].failed
        THEN /\ downloaded_files' = [d EXCEPT ![i] = Missing]
             /\ call' = Finish(cs, p, "returned")
             /\ lock_waiters' = w
             /\ UNCHANGED <<masterlock, skip_next, skip_setters>>
        ELSE IF LockFree(w)
        THEN PlayLocked(p, d, cs, w)
        ELSE /\ call' = [cs EXCEPT ![p].pc = "acquire_play", ![p].fetch = NoTask]
             /\ lock_waiters' = Append(w, Waiter(p, i))
             /\ downloaded_files' = d
             /\ UNCHANGED <<masterlock, skip_next, skip_setters>>

\* AfterBuffer with the wait of line 290 left out: ensure_playable goes on
\* as soon as buffer() has returned.
AfterBuffer_NoWait(p, df, cs, w) ==
    LET i == cs[p].ident
        d == Lookup(df, i)
    IN  IF cs[p].op = "buffer"
        THEN /\ call' = Finish(cs, p, "returned")
             /\ downloaded_files' = df
             /\ lock_waiters' = w
             /\ UNCHANGED <<masterlock, skip_next, skip_setters>>
        ELSE IF cs[p].op \in {"handle_play", "handle_buffer"}
        THEN /\ call' = [cs EXCEPT ![p].pc = "emit_meta"]
             /\ downloaded_files' = df
             /\ lock_waiters' = w
             /\ UNCHANGED <<masterlock, skip_next, skip_setters>>
        ELSE AfterEnsure(p, d, cs, w)

\* Source.ensure_playable, line 290: buffer() has returned normally.  When
\* buffer() was called by client.handle_play (line 62) or by
\* client.handle_buffer (line 53), the handler goes on to emit "meta-info"
\* (lines 63, 54).
AfterBuffer(p, df, cs, w) ==
    LET i == cs[p].ident
        d == Lookup(df, i)
    IN  IF cs[p].op = "buffer"
        THEN /\ call' = Finish(cs, p, "returned")
             /\ downloaded_files' = df
             /\ lock_waiters' = w
             /\ UNCHANGED <<masterlock, skip_next, skip_setters>>
        ELSE IF cs[p].op \in {"handle_play", "handle_buffer"}
        THEN /\ call' = [cs EXCEPT ![p].pc = "emit_meta"]
             /\ downloaded_files' = df
             /\ lock_waiters' = w
             /\ UNCHANGED <<masterlock, skip_next, skip_setters>>
        ELSE IF d[i].ready
        THEN AfterEnsure(p, d, cs, w)
        ELSE /\ call' = [cs EXCEPT ![p].pc = "wait_ready"]
             /\ downloaded_files' = d
             /\ lock_waiters' = w
             /\ UNCHANGED <<masterlock, skip_next, skip_setters>>

\* The fetch a play() waits for (kept for inspection; not program state).
Joined(op, t) == IF op = "play" THEN t ELSE NoTask

\* Source.buffer, lines 203-210, entered with the lock acquired by p.
BufferLocked(p, df, cs, w) ==
    LET i == cs[p].ident
        d == Lookup(df, i)
        t == NewTask
    IN  IF d[i].buffering
        THEN /\ AfterBuffer(p, d, [cs EXCEPT ![p].fetch = Joined(cs[p].op, d[i].buffer_task)], w)
             /\ UNCHANGED buffer_tasks
        ELSE /\ UnusedTasks # {}
             /\ buffer_tasks' = [buffer_tasks EXCEPT ![t] = [ident |-> i, status |-> "running"]]
             /\ downloaded_files' = [d EXCEPT ![i].buffering = TRUE, ![i].buffer_task = t]
             /\ call' = [cs EXCEPT ![p].pc = "await_task", ![p].task = t,
                                   ![p].fetch = Joined(cs[p].op, t)]
             /\ lock_waiters' = w
             /\ UNCHANGED <<masterlock, skip_next, skip_setters>>

----------------------------------------------------------------------------
\* Observations kept with each call (not program state): skip_seen, where the
\* call stood when skip_current first ran for its identifier since the call
\* began ("before": it ran before a play() call, and before any fetch of the
\* identifier), and fetch, the fetch task a play() call started or joined.

\* skip_current ran for this identifier before any fetch of it was started:
\* the record exists only because skip_current touched it.
SkippedBeforeFetch(i) ==
    /\ downloaded_files[i].present
    /\ downloaded_files[i].ready
    /\ downloaded_files[i].buffer_task = NoTask
    /\ ~downloaded_files[i].complete
    /\ ~downloaded_files[i].failed

FetchRunning(i) ==
    /\ downloaded_files[i].present
    /\ downloaded_files[i].buffer_task # NoTask
    /\ buffer_tasks[downloaded_files[i].buffer_task].status = "running"

SkipPhase(q, i) ==
    IF \/ call[q].ident # i
       \/ call[q].skip_seen \notin {"none", "before"}
       \/ call[q].pc \in {"idle", "done"}
    THEN call[q].skip_seen
    ELSE IF call[q].op # "play"
    THEN "other"
    ELSE IF call[q].pc = "await_task" /\ FetchRunning(i)
              /\ downloaded_files[i].buffer_task = call[q].task
    THEN "fetch_own"
    ELSE IF call[q].pc = "wait_ready" /\ FetchRunning(i)
    THEN "fetch_joined"
    ELSE IF call[q].pc = "playing" /\ mpv[q] = "live" /\ player = q
    THEN "playing"
    ELSE "other"

NewCall(p, i, op) ==
    [op |-> op, ident |-> i, pc |-> "idle", skip |-> FALSE, result |-> "none",
     task |-> NoTask, video |-> 0, audio |-> 0, played |-> FALSE,
     skip_seen |-> IF op = "play" /\ SkippedBeforeFetch(i) THEN "before" ELSE "none",
     fetch |-> NoTask]

----------------------------------------------------------------------------
\* Operations

\* Callers are interchangeable: a new call is made by the first free one.
CanCall(p) ==
    /\ call[p].pc \in {"idle", "done"}
    /\ \A q \in Procs : q < p => call[q].pc \notin {"idle", "done"}
    /\ calls_made < MaxCalls

\* Identifiers are interchangeable where the backend treats them alike: the
\* next-state relations of such systems let the first call of a run be for
\* "A".  The operations themselves take any identifier.
CanName(i) == calls_made = 0 => i = "A"

\* The passages through buffer() that calls in progress have still to make,
\* each of which may create a fetch task (line 208): one of every call that
\* waits for the lock of buffer(), and one of every client.handle_play that
\* has not yet called play() (client.py line 65), which passes buffer() again.
PendingPassages ==
    Cardinality({q \in Procs : call[q].pc = "acquire_buffer"})
      + Cardinality({q \in Procs : call[q].op = "handle_play"
                                    /\ call[q].pc \notin {"idle", "done"}})

\* The passages through buffer() a new call of op makes: client.handle_play
\* calls buffer() (line 62) and play() (line 65), the others pass it once.
Passages(op) == IF op = "handle_play" THEN 2 ELSE 1

\* Every passage through buffer(), of the calls in progress and of a new call
\* of op, has a fetch task left to create.
TaskLeft(op) ==
    Cardinality(Tasks \ UnusedTasks) + PendingPassages + Passages(op) <= MaxTasks

\* Entry of buffer(), directly or through ensure_playable() / play():
\* source.py line 202.
Enter(p, i, op) ==
    /\ CanCall(p)
    /\ TaskLeft(op)
    /\ calls_made' = calls_made + 1
    /\ UNCHANGED <<player, mpv, filename, result, skip_result, current>>
    /\ LET cs == [call EXCEPT ![p] = NewCall(p, i, op)]
       IN  IF LockFree(lock_waiters)
           THEN BufferLocked(p, downloaded_files, cs, lock_waiters)
           ELSE /\ call' = [cs EXCEPT ![p].pc = "acquire_buffer"]
                /\ lock_waiters' = Append(lock_waiters, Waiter(p, i))
                /\ UNCHANGED <<downloaded_files, buffer_tasks, masterlock, skip_next, skip_setters>>

\* Source.buffer called on its own (client.handle_buffer).
Buffer(p, i) == Enter(p, i, "buffer")

\* Source.ensure_playable.
EnsurePlayable(p, i) == Enter(p, i, "ensure_playable")

\* Source.play.
Play(p, i) == Enter(p, i, "play")

\* buffer() obtains the lock it was queued for.
AcquireBuffer(p) ==
    /\ call[p].pc = "acquire_buffer"
    /\ masterlock = NoProc
    /\ lock_waiters # <<>> /\ Head(lock_waiters).proc = p
    /\ BufferLocked(p, downloaded_files, call, Tail(lock_waiters))
    /\ UNCHANGED <<player, mpv, calls_made, filename, result, skip_result, current>>

\* do_buffer returns the locations.
DoBufferReturns(t) ==
    /\ buffer_tasks[t].status = "running"
    /\ buffer_tasks' = [buffer_tasks EXCEPT ![t].status = "done"]
    /\ UNCHANGED <<downloaded_files, masterlock, lock_waiters, player, skip_next, mpv, call,
                   calls_made, skip_setters, filename, result, skip_result, current>>

\* do_buffer raises an Exception.
DoBufferRaises(t) ==
    /\ buffer_tasks[t].status = "running"
    /\ buffer_tasks' = [buffer_tasks EXCEPT ![t].status = "failed"]
    /\ UNCHANGED <<downloaded_files, masterlock, lock_waiters, player, skip_next, mpv, call,
                   calls_made, skip_setters, filename, result, skip_result, current>>

\* Source.buffer, lines 210-220: `await buffer_task` is over.  A cancelled
\* task raises CancelledError in the awaiting buffer(); CancelledError is a
\* BaseException, `except Exception` does not catch it and it leaves
\* buffer(), ensure_playable() and play().
BufferResume(p) ==
    LET i == call[p].ident
        t == call[p].task
        d == Lookup(downloaded_files, i)
    IN  /\ call[p].pc = "await_task"
        /\ buffer_tasks[t].status \in {"done", "failed", "cancelled"}
        /\ UNCHANGED <<buffer_tasks, player, mpv, calls_made, filename, result, skip_result, current>>
        /\ CASE buffer_tasks[t].status = "done" ->
                  AfterBuffer(p,
                      [d EXCEPT ![i].video = t, ![i].audio = 0,
                                ![i].complete = TRUE, ![i].ready = TRUE],
                      Wake([call EXCEPT ![p].task = NoTask], i), lock_waiters)
             [] buffer_tasks[t].status = "failed" ->
                  AfterBuffer(p,
                      [d EXCEPT ![i].failed = TRUE, ![i].ready = TRUE],
                      Wake([call EXCEPT ![p].task = NoTask], i), lock_waiters)
             [] buffer_tasks[t].status = "cancelled" ->
                  /\ call' = Finish(call, p, "raised")
                  /\ UNCHANGED <<downloaded_files, masterlock, lock_waiters, skip_next,
                                 skip_setters>>

\* Source.ensure_playable, line 290: ready.wait() returns after the event was set.
ReadyResume(p) ==
    /\ call[p].pc = "woken"
    /\ AfterEnsure(p, downloaded_files, call, lock_waiters)
    /\ UNCHANGED <<buffer_tasks, player, mpv, calls_made, filename, result, skip_result, current>>

\* play() obtains the lock it was queued for (line 239).
AcquirePlay(p) ==
    /\ call[p].pc = "acquire_play"
    /\ masterlock = NoProc
    /\ lock_waiters # <<>> /\ Head(lock_waiters).proc = p
    /\ PlayLocked(p, downloaded_files, call, Tail(lock_waiters))
    /\ UNCHANGED <<buffer_tasks, player, mpv, calls_made, filename, result, skip_result, current>>

\* PlayerStarted with `await self.player.wait()` (line 250) moved into the
\* `async with self._masterlock` block: the lock is kept while mpv runs.
PlayerStarted_KeepsLock(p) ==
    /\ call[p].pc = "launching"
    /\ player' = p
    /\ mpv' = [mpv EXCEPT ![p] = "live"]
    /\ masterlock' = masterlock
    /\ call' = [call EXCEPT ![p].pc = "playing", ![p].played = TRUE]
    /\ UNCHANGED <<downloaded_files, buffer_tasks, lock_waiters, skip_next, calls_made, skip_setters,
                   filename, result, skip_result, current>>

\* Source.play, lines 250-254, with the wait for the player over: the
\* reference is dropped, a pending skip is consumed, play() returns.
AfterWait(p, cs) ==
    /\ player' = NoProc
    /\ mpv' = [mpv EXCEPT ![p] = "none"]
    /\ IF skip_next
       THEN /\ skip_next' = FALSE
            /\ skip_setters' = {}
            /\ call' = Finish([cs EXCEPT ![p].skip = TRUE], p, "returned")
       ELSE /\ call' = Finish(cs, p, "returned")
            /\ UNCHANGED <<skip_next, skip_setters>>

\* Source.play, lines 245-250: play_mpv returns the process and the lock is
\* released.  play() suspends in self.player.wait(); or the process has
\* exited while it was being created and the loop has recorded its return
\* code: wait() returns without suspending and play() runs to its end.
PlayerStarted(p) ==
    /\ call[p].pc = "launching"
    /\ masterlock' = NoProc
    /\ \/ /\ player' = p
          /\ mpv' = [mpv EXCEPT ![p] = "live"]
          /\ call' = [call EXCEPT ![p].pc = "playing", ![p].played = TRUE]
          /\ UNCHANGED <<skip_next, skip_setters>>
       \/ AfterWait(p, [call EXCEPT ![p].played = TRUE])
    /\ UNCHANGED <<downloaded_files, buffer_tasks, lock_waiters, calls_made,
                   filename, result, skip_result, current>>

\* The mpv process exits, by itself or after it was killed, and the event
\* loop records its return code.
MpvExit(p) ==
    /\ mpv[p] \in {"live", "killed"}
    /\ mpv' = [mpv EXCEPT ![p] = "exited"]
    /\ UNCHANGED <<downloaded_files, buffer_tasks, masterlock, lock_waiters, player, skip_next, call,
                   calls_made, skip_setters, filename, result, skip_result, current>>

\* Source.play, lines 250-254: self.player.wait() returns.
PlayResume(p) ==
    /\ call[p].pc = "playing"
    /\ mpv[p] = "exited"
    /\ AfterWait(p, call)
    /\ UNCHANGED <<downloaded_files, buffer_tasks, masterlock, lock_waiters, calls_made,
                   filename, result, skip_result, current>>

\* Cancel without effect: the fetch task goes on.
Cancel_Ignored(bt, t) == bt

\* asyncio.Task.cancel: a task that is still running ends cancelled; a
\* finished task is left as it is.
Cancel(bt, t) ==
    IF t # NoTask /\ bt[t].status = "running"
    THEN [bt EXCEPT ![t].status = "cancelled"] ELSE bt

\* Process.kill on the referenced player (lines 276-277), its effect on the
\* processes: a running process is killed; a process that has exited is
\* left as it is.
Kill(m, q) ==
    IF q # NoProc /\ m[q] = "live" THEN [m EXCEPT ![q] = "killed"] ELSE m

\* Process.kill raises ProcessLookupError for certain: self.player references
\* a process whose transport the event loop has closed (a wait() for it was
\* resumed).
KillRaises(m, pl) ==
    /\ pl # NoProc
    /\ m[pl] = "closed"

\* The ways Process.kill (line 277) can end.  On a process whose exit the
\* event loop has recorded, both happen: kill() is silent as long as the
\* loop has only recorded the return code, and raises ProcessLookupError
\* once the loop has closed the transport, which it does before it resumes
\* a play() suspended in wait().
KillOutcomes(m, pl) ==
    IF KillRaises(m, pl) THEN {"ProcessLookupError"}
    ELSE IF pl # NoProc /\ m[pl] = "exited" THEN {"returned", "ProcessLookupError"}
    ELSE {"returned"}

\* SkipOnce with `self._skip_next = True` read as a toggle of the flag.
SkipOnce_Toggles(i, df, bt, m, pl, sn) ==
    LET d == Lookup(df, i)
    IN  [downloaded_files |-> [d EXCEPT ![i].buffering = FALSE, ![i].ready = TRUE],
         buffer_tasks |-> Cancel(bt, d[i].buffer_task),
         mpv |-> Kill(m, pl),
         player |-> pl,
         skip_next |-> ~sn]

\* SkipOnce acting on every record of the map instead of the record of i:
\* every fetch is cancelled, every record is reset and signalled.
SkipOnce_EveryIdent(i, df, bt, m, pl, sn) ==
    LET d == Lookup(df, i)
    IN  [downloaded_files |->
             [j \in Idents |->
                 IF d[j].present THEN [d[j] EXCEPT !.buffering = FALSE, !.ready = TRUE]
                 ELSE d[j]],
         buffer_tasks |->
             [t \in Tasks |->
                 IF bt[t].status = "running" THEN [bt[t] EXCEPT !.status = "cancelled"]
                 ELSE bt[t]],
         mpv |-> Kill(m, pl),
         player |-> pl,
         skip_next |-> TRUE]

\* The locked section of skip_current(i), lines 269-277, as a function of the
\* coordinator state: records, fetch tasks, player processes, player
\* reference and _skip_next.
SkipOnce(i, df, bt, m, pl, sn) ==
    LET d == Lookup(df, i)
    IN  [downloaded_files |-> [d EXCEPT ![i].buffering = FALSE, ![i].ready = TRUE],
         buffer_tasks |-> Cancel(bt, d[i].buffer_task),
         mpv |-> Kill(m, pl),
         player |-> pl,
         skip_next |-> TRUE]

\* SkipLocked that also takes back the outcome of the fetch: complete and
\* failed are reset together with buffering.
SkipLocked_ResetsOutcome(i, w) ==
    LET d == Lookup(downloaded_files, i)
        seen == [q \in Procs |-> [call[q] EXCEPT !.skip_seen = SkipPhase(q, i)]]
    IN  /\ skip_next' = TRUE
        /\ skip_setters' = skip_setters \cup {i}
        /\ downloaded_files' = [d EXCEPT ![i].buffering = FALSE, ![i].ready = TRUE,
                                         ![i].complete = FALSE, ![i].failed = FALSE]
        /\ buffer_tasks' = Cancel(buffer_tasks, d[i].buffer_task)
        /\ mpv' = Kill(mpv, player)
        /\ call' = Wake(seen, i)
        /\ lock_waiters' = w
        /\ skip_result' \in KillOutcomes(mpv, player)
        /\ UNCHANGED <<masterlock, player>>

\* Source.skip_current(entry) with entry.ident = i, lines 269-277, with the
\* lock acquired.  The call modifies no Entry, so the caller is not kept;
\* how it ended (it returned None, or kill() raised) is kept in skip_result.
SkipLocked(i, w) ==
    LET once == SkipOnce(i, downloaded_files, buffer_tasks, mpv, player, skip_next)
        seen == [q \in Procs |-> [call[q] EXCEPT !.skip_seen = SkipPhase(q, i)]]
    IN  /\ skip_next' = once.skip_next
        /\ skip_setters' = skip_setters \cup {i}
        /\ downloaded_files' = once.downloaded_files
        /\ buffer_tasks' = once.buffer_tasks
        /\ mpv' = once.mpv
        /\ player' = once.player
        /\ call' = Wake(seen, i)
        /\ lock_waiters' = w
        /\ skip_result' \in KillOutcomes(mpv, player)
        /\ UNCHANGED masterlock

QueuedSkips == Len(SelectSeq(lock_waiters, LAMBDA e : e.proc = NoProc))

\* Source.skip_current, line 268.
SkipCurrent(i) ==
    /\ calls_made < MaxCalls
    /\ calls_made' = calls_made + 1
    /\ UNCHANGED <<filename, result, current>>
    /\ IF LockFree(lock_waiters)
       THEN SkipLocked(i, lock_waiters)
       ELSE /\ QueuedSkips < MaxQueuedSkips
            /\ lock_waiters' = Append(lock_waiters, Waiter(NoProc, i))
            /\ UNCHANGED <<downloaded_files, buffer_tasks, masterlock, player, skip_next,
                           mpv, call, skip_setters, skip_result>>

\* skip_current() obtains the lock it was queued for (line 268).
AcquireSkip ==
    /\ masterlock = NoProc
    /\ lock_waiters # <<>> /\ Head(lock_waiters).proc = NoProc
    /\ SkipLocked(Head(lock_waiters).ident, Tail(lock_waiters))
    /\ UNCHANGED <<calls_made, filename, result, current>>

Next ==
    \/ \E p \in Procs, i \in Idents : CanName(i) /\ Buffer(p, i)
    \/ \E p \in Procs, i \in Idents : CanName(i) /\ EnsurePlayable(p, i)
    \/ \E p \in Procs, i \in Idents : CanName(i) /\ Play(p, i)
    \/ \E i \in Idents : CanName(i) /\ SkipCurrent(i)
    \/ \E p \in Procs : AcquireBuffer(p)
    \/ \E p \in Procs : AcquirePlay(p)
    \/ AcquireSkip
    \/ \E t \in Tasks : DoBufferReturns(t)
    \/ \E t \in Tasks : DoBufferRaises(t)
    \/ \E p \in Procs : BufferResume(p)
    \/ \E p \in Procs : ReadyResume(p)
    \/ \E p \in Procs : PlayerStarted(p)
    \/ \E p \in Procs : MpvExit(p)
    \/ \E p \in Procs : PlayResume(p)

Spec == Init /\ [][Next]_vars

----------------------------------------------------------------------------
\* The client's handler of the server's "play" command (client.py, lines
\* 57-69) on top of the coordinator: buffer(entry), emit "meta-info",
\* play(entry), emit "pop-then-get-next".

\* client.handle_play, lines 59-62: the handler calls buffer(entry).
HandlePlay(p, i) == Enter(p, i, "handle_play")

\* client.handle_buffer, lines 51-53: the handler calls buffer(entry).
HandleBuffer(p, i) == Enter(p, i, "handle_buffer")

\* "meta-info" has been emitted.  client.handle_buffer, line 54: the handler
\* returns.  client.handle_play, lines 63-65: the handler sets
\* state["current"] and calls play(entry), which enters buffer() through
\* ensure_playable.
EmitMeta(p) ==
    /\ call[p].pc = "emit_meta"
    /\ UNCHANGED <<player, mpv, calls_made, filename, result, skip_result>>
    /\ IF call[p].op = "handle_buffer"
       THEN /\ call' = Finish(call, p, "returned")
            /\ UNCHANGED <<downloaded_files, buffer_tasks, masterlock, lock_waiters, skip_next,
                           skip_setters, current>>
       ELSE /\ current' = TRUE
            /\ LET cs == [call EXCEPT ![p].op = "handle_play/play"]
               IN  IF LockFree(lock_waiters)
                   THEN BufferLocked(p, downloaded_files, cs, lock_waiters)
                   ELSE /\ call' = [cs EXCEPT ![p].pc = "acquire_buffer"]
                        /\ lock_waiters' = Append(lock_waiters, Waiter(p, cs[p].ident))
                        /\ UNCHANGED <<downloaded_files, buffer_tasks, masterlock, skip_next,
                                       skip_setters>>

\* client.handle_play, lines 68-69: "pop-then-get-next" has been emitted,
\* the handler returns.
EmitPop(p) ==
    /\ call[p].pc = "emit_pop"
    /\ call' = [q \in Procs |->
                  IF q = p THEN [call[p] EXCEPT !.pc = "done", !.result = "emitted"]
                  ELSE IF call[q].pc = "done" THEN IdleCall ELSE call[q]]
    /\ UNCHANGED <<downloaded_files, buffer_tasks, masterlock, lock_waiters, player, skip_next,
                   mpv, calls_made, skip_setters, filename, result, skip_result, current>>

\* client.handle_skip, lines 27-29: state["current"].skip_current() is
\* called without the entry.  It raises TypeError (AttributeError while
\* state["current"] is None) before skip_current runs: the coordinator is
\* left as it is.
HandleSkip ==
    /\ calls_made < MaxCalls
    /\ calls_made' = calls_made + 1
    /\ skip_result' = IF current THEN "TypeError" ELSE "AttributeError"
    /\ UNCHANGED <<downloaded_files, buffer_tasks, masterlock, lock_waiters, player, skip_next,
                   mpv, call, skip_setters, filename, result, current>>

\* The coordinator driven by the client's handlers of the server's "play",
\* "buffer" and "skip" commands.
ClientNext ==
    \/ \E p \in Procs, i \in Idents : CanName(i) /\ HandlePlay(p, i)
    \/ \E p \in Procs, i \in Idents : CanName(i) /\ HandleBuffer(p, i)
    \/ HandleSkip
    \/ \E p \in Procs : EmitMeta(p)
    \/ \E p \in Procs : EmitPop(p)
    \/ \E p \in Procs : AcquireBuffer(p)
    \/ \E p \in Procs : AcquirePlay(p)
    \/ \E t \in Tasks : DoBufferReturns(t)
    \/ \E t \in Tasks : DoBufferRaises(t)
    \/ \E p \in Procs : BufferResume(p)
    \/ \E p \in Procs : ReadyResume(p)
    \/ \E p \in Procs : PlayerStarted(p)
    \/ \E p \in Procs : MpvExit(p)
    \/ \E p \in Procs : PlayResume(p)

ClientSpec == Init /\ [][ClientNext]_vars

\* client.handle_play and client.handle_buffer on a coordinator whose
\* skip_current(entry) is called with the entry, as Source.skip_current
\* (source.py, line 256) is declared.
PlaySkipNext ==
    \/ \E p \in Procs, i \in Idents : CanName(i) /\ HandlePlay(p, i)
    \/ \E p \in Procs, i \in Idents : CanName(i) /\ HandleBuffer(p, i)
    \/ \E p \in Procs : EmitMeta(p)
    \/ \E p \in Procs : EmitPop(p)
    \/ \E i \in Idents : CanName(i) /\ SkipCurrent(i)
    \/ \E p \in Procs : AcquireBuffer(p)
    \/ \E p \in Procs : AcquirePlay(p)
    \/ AcquireSkip
    \/ \E t \in Tasks : DoBufferReturns(t)
    \/ \E t \in Tasks : DoBufferRaises(t)
    \/ \E p \in Procs : BufferResume(p)
    \/ \E p \in Procs : ReadyResume(p)
    \/ \E p \in Procs : PlayerStarted(p)
    \/ \E p \in Procs : MpvExit(p)
    \/ \E p \in Procs : PlayResume(p)

PlaySkipSpec == Init /\ [][PlaySkipNext]_vars

----------------------------------------------------------------------------
\* YoutubeSource.play (youtube.py, lines 236-262) of a source configured
\* with start_streaming.

\* YoutubeSource.start_streaming of the modelled source.
start_streaming == TRUE

\* YoutubeSource.play(entry, mpv_options), lines 251-262.  The test of line
\* 251 reads the record through the defaultdict.  Streaming: play_mpv is
\* awaited with entry.ident as the location, without the lock (or it raises
\* at once: mpv cannot be started, the exception leaves play()).  Otherwise
\* super().play(entry, mpv_options) is called: Source.play takes the entry
\* only, the call raises TypeError.
YtPlay(p, i) ==
    /\ CanCall(p)
    /\ calls_made' = calls_made + 1
    /\ LET d == Lookup(downloaded_files, i)
           cs == [call EXCEPT ![p] = NewCall(p, i, "yt_play")]
       IN  /\ downloaded_files' = d
           /\ IF start_streaming /\ ~d[i].complete
              THEN \/ call' = [cs EXCEPT ![p].pc = "stream_launching"]
                   \/ call' = Finish(cs, p, "launch_error")
              ELSE call' = Finish(cs, p, "type_error")
    /\ UNCHANGED <<buffer_tasks, masterlock, lock_waiters, player, skip_next, mpv, skip_setters,
                   filename, result, skip_result, current>>

\* YoutubeSource.play, lines 252-260: play_mpv returns the process.  play()
\* suspends in self.player.wait(); or the process has exited while it was
\* being created and the loop has recorded its return code: wait() returns
\* without suspending and play() returns, self.player left as it is.
StreamStarted(p) ==
    /\ call[p].pc = "stream_launching"
    /\ player' = p
    /\ \/ /\ mpv' = [mpv EXCEPT ![p] = "live"]
          /\ call' = [call EXCEPT ![p].pc = "streaming", ![p].played = TRUE]
       \/ /\ mpv' = [mpv EXCEPT ![p] = "exited"]
          /\ call' = Finish([call EXCEPT ![p].played = TRUE], p, "returned")
    /\ UNCHANGED <<downloaded_files, buffer_tasks, masterlock, lock_waiters, skip_next,
                   calls_made, skip_setters, filename, result, skip_result, current>>

\* YoutubeSource.play, line 260: self.player.wait() is resumed (the loop has
\* closed the transport of the process) and play() returns; self.player
\* and _skip_next are left as they are.
StreamResume(p) ==
    /\ call[p].pc = "streaming"
    /\ mpv[p] = "exited"
    /\ mpv' = [mpv EXCEPT ![p] = "closed"]
    /\ call' = Finish(call, p, "returned")
    /\ UNCHANGED <<downloaded_files, buffer_tasks, masterlock, lock_waiters, player, skip_next,
                   calls_made, skip_setters, filename, result, skip_result, current>>

\* A streaming source: play() of YoutubeSource, with buffer() and
\* skip_current() inherited from Source.
StreamNext ==
    \/ \E p \in Procs, i \in Idents : CanName(i) /\ YtPlay(p, i)
    \/ \E p \in Procs, i \in Idents : CanName(i) /\ Buffer(p, i)
    \/ \E i \in Idents : CanName(i) /\ SkipCurrent(i)
    \/ \E t \in Tasks : DoBufferReturns(t)
    \/ \E t \in Tasks : DoBufferRaises(t)
    \/ \E p \in Procs : BufferResume(p)
    \/ \E p \in Procs : StreamStarted(p)
    \/ \E p \in Procs : MpvExit(p)
    \/ \E p \in Procs : StreamResume(p)

StreamSpec == Init /\ [][StreamNext]_vars

----------------------------------------------------------------------------
\* Result.from_filename (src/syng/result.py, lines 31-61).  A str is the
\* sequence of its characters.

\* Number of pieces a filename of the checked set is put together from.
MaxPieces == 6

\* The pieces: letters, a space, the separator " - ", a dot and a slash.
Pieces == {<<"a">>, <<"b">>, <<" ">>, <<" ", "-", " ">>, <<".">>, <<"/">>}

Concat(ps) ==
    LET RECURSIVE cat(_)
        cat(k) == IF k > Len(ps) THEN <<>> ELSE ps[k] \o cat(k + 1)
    IN  cat(1)

\* The filenames from_filename is applied to.
Filenames == {Concat(ps) : ps \in UNION {[1..n -> Pieces] : n \in 0..MaxPieces}}

\* The names of the sources that call from_filename.
Sources == {"files", "s3"}

\* str.rfind(c), as a position counted from 1: 0 when c does not occur.
rfind(s, c) ==
    LET at == {k \in 1..Len(s) : s[k] = c}
    IN  IF at = {} THEN 0 ELSE CHOOSE k \in at : \A j \in at : j <= k

\* os.path.splitext(p)[0] (genericpath._splitext): the last dot of the last
\* path component starts the extension, unless only dots precede it there.
splitext(p) ==
    LET sepIndex == rfind(p, "/")
        dotIndex == rfind(p, ".")
    IN  IF dotIndex > sepIndex /\ \E k \in (sepIndex + 1)..(dotIndex - 1) : p[k] # "."
        THEN SubSeq(p, 1, dotIndex - 1)
        ELSE p

\* os.path.basename(p): what follows the last slash.
basename(p) == SubSeq(p, rfind(p, "/") + 1, Len(p))

\* The separator of line 52.
Separator == <<" ", "-", " ">>

\* str.split(" - "): the pieces between the occurrences of the separator,
\* found from the left, not overlapping.
RECURSIVE split(_)
split(s) ==
    LET at == {k \in 1..(Len(s) - 2) : SubSeq(s, k, k + 2) = Separator}
        first == CHOOSE k \in at : \A j \in at : k <= j
    IN  IF at = {}
        THEN <<s>>
        ELSE <<SubSeq(s, 1, first - 1)>> \o split(SubSeq(s, first + 3, Len(s)))

\* str.strip(): leading and trailing whitespace removed.
strip(s) ==
    LET at == {k \in 1..Len(s) : s[k] # " "}
        lo == CHOOSE k \in at : \A j \in at : k <= j
        hi == CHOOSE k \in at : \A j \in at : j <= k
    IN  IF at = {} THEN <<>> ELSE SubSeq(s, lo, hi)

\* The artist and album of the except branch, line 60.
Unknown == <<"U", "n", "k", "n", "o", "w", "n">>

\* Result.from_filename(filename, source), lines 50-61.  splitfile[1] or
\* splitfile[2] raises IndexError when the split has fewer than three parts.
from_filename(f, src) ==
    LET base == splitext(f)
        splitfile == split(basename(base))
    IN  IF Len(splitfile) >= 3
        THEN [ident |-> f, source |-> src, title |-> strip(splitfile[2]),
              artist |-> strip(splitfile[1]), album |-> strip(splitfile[3])]
        ELSE [ident |-> f, source |-> src, title |-> base,
              artist |-> Unknown, album |-> Unknown]

\* A filename to be parsed; the coordinator is not involved.
ParseInit ==
    /\ downloaded_files = [i \in Idents |-> Missing]
    /\ buffer_tasks = [t \in Tasks |-> [ident |-> NoIdent, status |-> "unused"]]
    /\ masterlock = NoProc
    /\ lock_waiters = <<>>
    /\ player = NoProc
    /\ skip_next = FALSE
    /\ mpv = [p \in Procs |-> "none"]
    /\ call = [p \in Procs |-> IdleCall]
    /\ calls_made = 0
    /\ skip_setters = {}
    /\ filename \in Filenames
    /\ result = NoResult
    /\ skip_result = "none"
    /\ current = FALSE

\* Result.from_filename(filename, source) is called and returns.
FromFilename(src) ==
    /\ result = NoResult
    /\ result' = from_filename(filename, src)
    /\ UNCHANGED <<downloaded_files, buffer_tasks, masterlock, lock_waiters, player, skip_next,
                   mpv, call, calls_made, skip_setters, filename, skip_result, current>>

ParseNext == \E src \in Sources : FromFilename(src)

ParseSpec == ParseInit /\ [][ParseNext]_vars

----------------------------------------------------------------------------
\* The coordinator with a backend whose fetch of one identifier never ends
\* (do_buffer neither returns nor raises for it), run by the event loop.

\* The identifier whose fetch never terminates.  The backend tells it from
\* the other identifier, so a run may begin with a call for either.
StuckIdent == "A"

\* do_buffer returns, for an identifier the backend can fetch.
FetchReturns(t) ==
    /\ buffer_tasks[t].ident # StuckIdent
    /\ DoBufferReturns(t)

\* do_buffer raises an Exception, for an identifier the backend can fetch.
FetchRaises(t) ==
    /\ buffer_tasks[t].ident # StuckIdent
    /\ DoBufferRaises(t)

StuckNext ==
    \/ \E p \in Procs, i \in Idents : Buffer(p, i)
    \/ \E p \in Procs, i \in Idents : EnsurePlayable(p, i)
    \/ \E p \in Procs, i \in Idents : Play(p, i)
    \/ \E i \in Idents : SkipCurrent(i)
    \/ \E p \in Procs : AcquireBuffer(p)
    \/ \E p \in Procs : AcquirePlay(p)
    \/ AcquireSkip
    \/ \E t \in Tasks : FetchReturns(t)
    \/ \E t \in Tasks : FetchRaises(t)
    \/ \E p \in Procs : BufferResume(p)
    \/ \E p \in Procs : ReadyResume(p)
    \/ \E p \in Procs : PlayerStarted(p)
    \/ \E p \in Procs : MpvExit(p)
    \/ \E p \in Procs : PlayResume(p)

\* The event loop runs every coroutine that is ready to run: one that was
\* handed the lock (asyncio.Lock wakes its waiters in arrival order), one
\* whose awaited task, event or process wait is over.  The creation of a
\* subprocess completes, and a player process exits (at the end of its
\* input, or killed).
EventLoopFairness ==
    /\ \A p \in Procs : WF_vars(AcquireBuffer(p))
    /\ \A p \in Procs : WF_vars(AcquirePlay(p))
    /\ WF_vars(AcquireSkip)
    /\ \A p \in Procs : WF_vars(BufferResume(p))
    /\ \A p \in Procs : WF_vars(ReadyResume(p))
    /\ \A p \in Procs : WF_vars(PlayerStarted(p))
    /\ \A p \in Procs : WF_vars(MpvExit(p))
    /\ \A p \in Procs : WF_vars(PlayResume(p))

StuckSpec == Init /\ [][StuckNext]_vars /\ EventLoopFairness

TypeOK ==
    /\ masterlock \in Procs \cup {NoProc}
    /\ player \in Procs \cup {NoProc}
    /\ skip_next \in BOOLEAN
    /\ \A p \in Procs : mpv[p] \in {"none", "live", "killed", "exited", "closed"}
    /\ skip_result \in {"none", "returned", "ProcessLookupError", "TypeError", "AttributeError"}
    /\ current \in BOOLEAN

----------------------------------------------------------------------------
\* Vocabulary of the properties

InBuffer(p, i) ==
    call[p].ident = i /\ call[p].pc = "await_task"

RunningFetches(i) ==
    {t \in Tasks : buffer_tasks[t].ident = i /\ buffer_tasks[t].status = "running"}

\* A fetch task for i is created in this step.
FetchStarts(i) ==
    \E t \in Tasks : buffer_tasks[t].status = "unused" /\ buffer_tasks'[t].ident = i

\* play() of caller p hands the locations to play_mpv in this step (line
\* 245) and play_mpv raises at once.  The exception ends play(); under
\* client.handle_play the handler goes on to "pop-then-get-next", which it
\* reaches otherwise only once play_mpv has returned, with _skip_next set
\* at line 240, or with the record deleted at line 236.
LaunchFails(p) ==
    /\ call[p].pc \notin {"launching", "playing", "emit_pop"}
    /\ \/ /\ call'[p].op = "play"
          /\ call'[p].pc = "done"
          /\ call'[p].result = "launch_error"
          /\ call[p].pc # "done" \/ \E i \in Idents : Enter(p, i, "play")
       \/ /\ call'[p].op = "handle_play/play"
          /\ call'[p].pc = "emit_pop"
          /\ ~skip_next
          /\ downloaded_files'[call'[p].ident].present

\* play() of caller p hands the locations to play_mpv in this step (lines
\* 245-248), whether the process is then created or play_mpv raises.
Launches(p) ==
    \/ call[p].pc # "launching" /\ call'[p].pc = "launching"
    \/ LaunchFails(p)

\* The operations a caller calls.
Operations == {"buffer", "ensure_playable", "play", "handle_buffer", "handle_play"}

\* Caller p makes a call in this step.
Calls(p) ==
    \/ \E i \in Idents, op \in Operations : Enter(p, i, op)
    \/ \E i \in Idents : YtPlay(p, i)

\* The call of caller p ends in this step: a call that was in progress, or
\* a call that is made and runs to its end within the step.
Ends(p) ==
    /\ call'[p].pc = "done"
    /\ call[p].pc \notin {"idle", "done"} \/ Calls(p)

PlayEnded(p) ==
    call[p].op = "play" /\ call[p].pc = "done"

\* C1: buffer() calls for one identifier that overlap, with no skip_current
\* for it since either of them began, have started at most one fetch: at
\* most one of them is awaiting a fetch task of its own.
C1_SingleFlight ==
    \A i \in Idents :
        Cardinality({p \in Procs : InBuffer(p, i)
                                   /\ call[p].skip_seen \in {"none", "before"}}) <= 1

\* C2: at most one fetch task per identifier is running (started, neither
\* finished nor cancelled).
C2_OneActiveFetch ==
    \A i \in Idents : Cardinality(RunningFetches(i)) <= 1

\* C3: while the record of an identifier is complete, no step starts another
\* fetch for it.
C3_NoRefetch ==
    [][\A i \in Idents :
          downloaded_files[i].present /\ downloaded_files[i].complete => ~FetchStarts(i)]_vars

\* C4: when play() launches the player, the record of its identifier is
\* complete and the player gets the locations the completed fetch deposited:
\* the locations of the record, which play_mpv is called with, are set, and
\* they are what play() holds while the process is created.
C4_PlayOnlyWhenReady ==
    [][\A p \in Procs :
          Launches(p) =>
              /\ downloaded_files'[call'[p].ident].complete
              /\ downloaded_files'[call'[p].ident].video # 0
              /\ call'[p].pc = "launching" =>
                     call'[p].video = downloaded_files'[call'[p].ident].video]_vars

\* C5: a play() whose fetch was in progress when skip_current ran for its
\* identifier returns normally, with item.skip set.
C5_SkipMidFetch ==
    \A p \in Procs :
        PlayEnded(p) /\ call[p].skip_seen \in {"fetch_own", "fetch_joined"} =>
            call[p].result = "returned" /\ call[p].skip

\* C6: a play() called after skip_current ran for its identifier, before any
\* fetch of it was started, returns with item.skip set and launches no player.
C6_SkipBeforeFetch ==
    \A p \in Procs :
        PlayEnded(p) /\ call[p].skip_seen = "before" =>
            call[p].result = "returned" /\ call[p].skip /\ ~call[p].played

\* C7: a play() whose player was running when skip_current ran for its
\* identifier returns after the process has exited, with _skip_next cleared
\* and item.skip set.  (Stated for a play() that is the only call for its
\* identifier.)
C7_SkipDuringPlayback ==
    [][\A p \in Procs :
          /\ Ends(p) /\ call[p].pc = "playing"
          /\ call[p].op = "play" /\ call[p].skip_seen = "playing"
          /\ \A q \in Procs \ {p} : call[q].ident # call[p].ident
          =>
              /\ mpv[p] = "exited"
              /\ call'[p].result = "returned"
              /\ call'[p].skip
              /\ ~skip_next']_vars

\* C8: play(Y) is marked skipped only by a skip_current that was called for Y.
C8_SkipOnlyOwnItem ==
    [][\A p \in Procs :
          ~call[p].skip /\ call'[p].skip /\ call'[p].ident = call[p].ident =>
              call[p].ident \in skip_setters]_vars

\* C9: a play() that has waited for a fetch that failed, with no skip_current
\* for its identifier meanwhile, goes on by returning: without a player,
\* with item.skip unset and with the record removed.
C9_FailedFetchAtPlay ==
    [][\A p \in Procs :
          /\ call[p].op = "play"
          /\ call[p].pc \in {"await_task", "woken"}
          /\ call[p].skip_seen = "none"
          /\ call[p].fetch # NoTask
          /\ buffer_tasks[call[p].fetch].status = "failed"
          /\ call'[p].pc # call[p].pc
          => /\ call'[p].pc = "done"
             /\ call'[p].result = "returned"
             /\ ~call'[p].skip
             /\ ~call'[p].played
             /\ ~downloaded_files'[call[p].ident].present]_vars

\* The record of i was removed by play() and nothing has touched it since:
\* a fetch was started for i, hence its record existed.
Evicted(i) ==
    /\ ~downloaded_files[i].present
    /\ \E t \in Tasks : buffer_tasks[t].ident = i

\* Caller p goes through the locked section of buffer() for i (lines
\* 202-205) in this step: as it makes the call, or after it was queued for
\* the lock.
PassesBuffer(p, i) ==
    \/ /\ LockFree(lock_waiters)
       /\ \E op \in {"buffer", "ensure_playable", "play"} : Enter(p, i, op)
    \/ /\ call[p].pc = "acquire_buffer"
       /\ call[p].ident = i
       /\ call[p].op \in {"buffer", "ensure_playable", "play"}
       /\ AcquireBuffer(p)

\* play() of caller p returns in this step because it found the record failed:
\* it returns without item.skip and without having launched a player.
ReturnsUnplayable(p) ==
    /\ Ends(p) /\ call'[p].op = "play"
    /\ call'[p].result = "returned" /\ ~call'[p].skip /\ ~call'[p].played

\* C10: play() that finds the record failed leaves the identifier without a
\* record, and the buffer() call that finds the record removed starts from a
\* default record and starts a fetch.
C10_FreshFetchAfterEviction ==
    [][/\ \A p \in Procs :
            ReturnsUnplayable(p) => ~downloaded_files'[call'[p].ident].present
       /\ \A p \in Procs, i \in Idents :
            Evicted(i) /\ PassesBuffer(p, i) =>
                \E t \in Tasks :
                   /\ buffer_tasks[t].status = "unused"
                   /\ buffer_tasks'[t] = [ident |-> i, status |-> "running"]
                   /\ call'[p].task = t
                   /\ downloaded_files'[i] =
                         [DLFilesEntry EXCEPT !.buffering = TRUE, !.buffer_task = t]]_vars

\* Reached: a play() of an identifier has returned after a failed fetch, and
\* a later buffer() of the identifier awaits a new fetch on a fresh record.
C10_Witness ==
    \E p \in Procs, q \in Procs, i \in Idents :
        /\ PlayEnded(q) /\ call[q].ident = i
        /\ call[q].result = "returned" /\ ~call[q].skip /\ ~call[q].played
        /\ InBuffer(p, i)
        /\ downloaded_files[i] =
              [DLFilesEntry EXCEPT !.buffering = TRUE, !.buffer_task = call[p].task]
        /\ \E t \in Tasks \ {call[p].task} :
              buffer_tasks[t].ident = i /\ buffer_tasks[t].status = "failed"

----------------------------------------------------------------------------
\* Further vocabulary

\* The locked section of skip_current(i) (lines 269-277) runs in this step.
SkipRuns(i) ==
    \/ LockFree(lock_waiters) /\ SkipCurrent(i)
    \/ /\ lock_waiters # <<>>
       /\ Head(lock_waiters) = Waiter(NoProc, i)
       /\ AcquireSkip

\* buffer() of caller p goes on after `await buffer_task` in this step
\* (lines 212-220), the task having returned or raised an Exception.
BufferCompletes(p) ==
    /\ call[p].pc = "await_task"
    /\ buffer_tasks[call[p].task].status \in {"done", "failed"}
    /\ call'[p].pc # "await_task"

\* ready.set() is executed on the record of i in this step (lines 220, 274).
SetsReady(i) ==
    \/ SkipRuns(i)
    \/ \E p \in Procs : call[p].ident = i /\ BufferCompletes(p)

\* C11: the buffer() call whose fetch raised an Exception goes on without
\* raising; a buffer() or ensure_playable() call leaves the record failed,
\* not complete and with the readiness signal set.
C11_FetchErrorBecomesState ==
    [][\A p \in Procs :
          BufferCompletes(p) /\ buffer_tasks[call[p].task].status = "failed" =>
              /\ call'[p].result # "raised"
              /\ call[p].op \in {"buffer", "ensure_playable"} =>
                    /\ downloaded_files'[call[p].ident].present
                    /\ downloaded_files'[call[p].ident].failed
                    /\ ~downloaded_files'[call[p].ident].complete
                    /\ downloaded_files'[call[p].ident].ready]_vars

\* C12: no step executes ready.set() on a record whose readiness signal is
\* already set.
C12_ReadySetOnce ==
    [][\A i \in Idents :
          SetsReady(i) => ~(downloaded_files[i].present /\ downloaded_files[i].ready)]_vars

\* C13: while the readiness signal of a record is set, no fetch of its
\* identifier is running and its complete/failed flags do not change.
C13_ReadyIsBarrier ==
    [][\A i \in Idents :
          downloaded_files[i].present /\ downloaded_files[i].ready =>
              /\ RunningFetches(i) = {}
              /\ downloaded_files'[i].present =>
                    /\ downloaded_files'[i].complete = downloaded_files[i].complete
                    /\ downloaded_files'[i].failed = downloaded_files[i].failed]_vars

\* C15: no record is both complete and failed.
C15_CompleteXorFailed ==
    \A i \in Idents :
        downloaded_files[i].present =>
            ~(downloaded_files[i].complete /\ downloaded_files[i].failed)

\* The call of caller p, of operation op, returns normally in this step:
\* after a suspension, or in the very step in which it was made.
ReturnsNow(p, op) ==
    /\ call'[p].op = op /\ call'[p].pc = "done" /\ call'[p].result = "returned"
    /\ Ends(p) \/ \E i \in Idents : Enter(p, i, op)

\* C14, as stated: at the moment ensure_playable() returns, the readiness
\* signal of its identifier (the signal of the record the map holds for it)
\* is set.
C14_ReadySetAtReturn ==
    [][\A p \in Procs :
          ReturnsNow(p, "ensure_playable") =>
              /\ downloaded_files'[call'[p].ident].present
              /\ downloaded_files'[call'[p].ident].ready]_vars

\* C14, amended: ensure_playable() returns only after the readiness signal
\* of the record it waited on has been set: it was released from
\* ready.wait() by a set, or it did not suspend and the signal of the record
\* is set as it returns.  A call suspended in ready.wait() leaves the wait
\* only in a step that executes ready.set() for its identifier.  A signal
\* that is set is not cleared while its record stays in the map: at the
\* return the identifier's signal is unset only when the record was removed
\* (play(), line 236) after the set.
C14_EnsurePlayableWaits ==
    [][/\ \A p \in Procs :
            /\ ReturnsNow(p, "ensure_playable") =>
                  \/ call[p].pc = "woken"
                  \/ /\ downloaded_files'[call'[p].ident].present
                     /\ downloaded_files'[call'[p].ident].ready
            /\ call[p].pc = "wait_ready" /\ call'[p].pc # "wait_ready" =>
                  /\ call'[p].pc = "woken"
                  /\ SetsReady(call[p].ident)
       /\ \A i \in Idents :
            downloaded_files[i].present /\ downloaded_files[i].ready
              /\ downloaded_files'[i].present => downloaded_files'[i].ready]_vars

\* Reached: an ensure_playable() call that was suspended on an unset signal
\* has been released by ready.set().
C14_Witness ==
    \E p \in Procs :
        /\ call[p].op = "ensure_playable" /\ call[p].pc = "woken"
        /\ downloaded_files[call[p].ident].present
        /\ downloaded_files[call[p].ident].ready

\* C16: no step resets complete or failed of a record that stays in the map.
C16_TerminalFlagsStable ==
    [][\A i \in Idents :
          downloaded_files[i].present /\ downloaded_files'[i].present =>
              /\ downloaded_files[i].complete => downloaded_files'[i].complete
              /\ downloaded_files[i].failed => downloaded_files'[i].failed]_vars

\* Reached: skip_current has run on a record that is complete, a new fetch
\* was started for it, and the record is still complete.
C16_Witness ==
    \E i \in Idents :
        /\ downloaded_files[i].present /\ downloaded_files[i].complete
        /\ i \in skip_setters
        /\ downloaded_files[i].buffer_task # NoTask
        /\ downloaded_files[i].video # downloaded_files[i].buffer_task

\* C17: _skip_next and the player reference are changed only inside the
\* critical section: while a caller holds _masterlock, no step of another
\* caller changes either of them.
C17_FlagsChangeUnderLock ==
    [][masterlock # NoProc /\ (skip_next' # skip_next \/ player' # player) =>
          call'[masterlock].pc # call[masterlock].pc]_vars

\* C18: running skip_current(i) once more on the state a run of
\* skip_current(i) has left gives that state again (records, fetch tasks,
\* player processes, player reference, _skip_next).
C18_SkipIdempotent ==
    [][\A i \in Idents :
          SkipRuns(i) =>
              LET once == SkipOnce(i, downloaded_files, buffer_tasks, mpv, player, skip_next)
                  twice == SkipOnce(i, once.downloaded_files, once.buffer_tasks, once.mpv,
                                    once.player, once.skip_next)
              IN  /\ once = [downloaded_files |-> downloaded_files',
                             buffer_tasks |-> buffer_tasks',
                             mpv |-> mpv',
                             player |-> player',
                             skip_next |-> skip_next']
                  /\ twice = once]_vars

\* Reached: skip_current has cancelled a running fetch and killed a running
\* player.
C18_Witness ==
    /\ skip_next
    /\ \E t \in Tasks : buffer_tasks[t].status = "cancelled"
    /\ \E p \in Procs : mpv[p] = "killed"

\* C19: a handle_play that has ended has emitted "pop-then-get-next".
C19_QueueAdvances ==
    \A p \in Procs :
        call[p].pc = "done" /\ call[p].op \in {"handle_play", "handle_play/play"} =>
            call[p].result = "emitted"

\* C20: when play() of a streaming source launches the player on the remote
\* locator, a fetch of the identifier is running beside it.
C20_StreamingKeepsFetching ==
    [][\A p \in Procs :
          call[p].pc # "stream_launching" /\ call'[p].pc = "stream_launching" =>
              \E t \in Tasks :
                 /\ buffer_tasks'[t].ident = call'[p].ident
                 /\ buffer_tasks'[t].status = "running"]_vars

\* The filename splits into at least three parts (line 52).
ThreeParts(f) == Len(split(basename(splitext(f)))) >= 3

\* C21: from_filename returns a Result for every filename: with at least
\* three parts, artist, title and album are the first three parts, stripped,
\* and ident is the filename; otherwise the title is the whole filename and
\* artist and album are "Unknown".
C21_FromFilename ==
    result # NoResult =>
        IF ThreeParts(filename)
        THEN LET parts == split(basename(splitext(filename)))
             IN  /\ result.ident = filename
                 /\ result.artist = strip(parts[1])
                 /\ result.title = strip(parts[2])
                 /\ result.album = strip(parts[3])
        ELSE /\ result.title = filename
             /\ result.artist = Unknown
             /\ result.album = Unknown

\* The call at the head of the lock's queue can take the lock now.
HeadCanAcquire ==
    LET h == Head(lock_waiters)
    IN  IF h.proc = NoProc
        THEN ENABLED AcquireSkip
        ELSE ENABLED AcquireBuffer(h.proc) \/ ENABLED AcquirePlay(h.proc)

\* C22: no call holds _masterlock while it is suspended on its fetch task, on
\* the readiness signal or on the exit of the player: the holder of the lock
\* is creating the player process.  Hence a call that is queued for the lock
\* gets it without any fetch or playback having to end: the lock is free and
\* the head of the queue can take it, or it is freed by the player process
\* having been created.
C22_LockNotHeldWhileSuspended ==
    /\ \A p \in Procs :
          call[p].pc \in {"await_task", "wait_ready", "woken", "playing"} => masterlock # p
    /\ masterlock # NoProc =>
          call[masterlock].pc = "launching" /\ ENABLED PlayerStarted(masterlock)
    /\ lock_waiters # <<>> /\ masterlock = NoProc => HeadCanAcquire

\* Reached: one call is suspended on its player, another on a running fetch
\* of another identifier, and the lock is free.
C22_Witness ==
    \E p \in Procs, q \in Procs :
        /\ call[p].pc = "playing" /\ mpv[p] = "live"
        /\ call[q].pc = "await_task" /\ call[q].ident # call[p].ident
        /\ buffer_tasks[call[q].task].status = "running"
        /\ masterlock = NoProc

\* Caller p is in play() or ensure_playable() of the identifier whose fetch
\* never ends, suspended on the fetch task or on the readiness signal.
SuspendedOnStuck(p) ==
    /\ call[p].op \in {"play", "ensure_playable"}
    /\ call[p].ident = StuckIdent
    /\ call[p].pc \in {"await_task", "wait_ready", "woken"}

\* skip_current was invoked for the identifier while caller p was suspended
\* on it: the call is queued for the lock, or it has run (it has cancelled
\* the fetch task p awaits, or set the signal p waits for).
SkipInvokedOn(p) ==
    /\ SuspendedOnStuck(p)
    /\ \/ \E k \in 1..Len(lock_waiters) : lock_waiters[k] = Waiter(NoProc, StuckIdent)
       \/ call[p].pc = "await_task" /\ buffer_tasks[call[p].task].status = "cancelled"
       \/ call[p].pc = "woken"

\* C23: a play() or ensure_playable() call suspended on the identifier whose
\* fetch never ends, for which skip_current has been invoked, eventually ends;
\* and without skip_current it stays suspended: a fetch task of the
\* identifier ends, and a call leaves ready.wait(), only in a step in which
\* the locked section of skip_current runs for the identifier, and a call
\* leaves `await buffer_task` only when its task has been cancelled.
C23_SkipReleasesStuckCall ==
    /\ \A p \in Procs : SkipInvokedOn(p) ~> call[p].pc \in {"idle", "done"}
    /\ [][/\ \A t \in Tasks :
                /\ buffer_tasks[t] = [ident |-> StuckIdent, status |-> "running"]
                /\ buffer_tasks'[t] # buffer_tasks[t]
                => SkipRuns(StuckIdent)
          /\ \A p \in Procs :
                /\ SuspendedOnStuck(p) /\ call[p].pc = "wait_ready"
                /\ call'[p].pc # "wait_ready"
                => SkipRuns(StuckIdent)
          /\ \A p \in Procs :
                /\ SuspendedOnStuck(p) /\ call[p].pc = "await_task"
                /\ call'[p].pc # "await_task"
                => buffer_tasks[call[p].task].status = "cancelled"]_vars

\* Reached: a play() call that was suspended on the fetch that never ends
\* when skip_current ran has ended.
C23_Witness ==
    \E p \in Procs :
        /\ PlayEnded(p) /\ call[p].ident = StuckIdent
        /\ call[p].skip_seen \in {"fetch_own", "fetch_joined"}

\* The callers whose play() is in its playback step: the player process was
\* created and its exit has not been observed by play().
InPlayback == {p \in Procs : call[p].pc = "playing"}

\* The player processes that are running.
LivePlayers == {p \in Procs : mpv[p] \in {"live", "killed"}}

\* C24: the player reference is present exactly when a play() call is in its
\* playback step, it then references the process of such a call, and at most
\* one player process is running.
C24_PlayerReference ==
    /\ player # NoProc <=> InPlayback # {}
    /\ player # NoProc => player \in InPlayback
    /\ Cardinality(LivePlayers) <= 1

\* C25: a run of skip_current(i) changes no record of another identifier
\* (flags, locations, readiness signal, fetch task), and the only fetch task
\* it changes is the one recorded for i, which it cancels.
C25_SkipFrame ==
    [][\A i \in Idents :
          SkipRuns(i) =>
              /\ \A j \in Idents \ {i} : downloaded_files'[j] = downloaded_files[j]
              /\ \A t \in Tasks :
                    buffer_tasks'[t] # buffer_tasks[t] =>
                        /\ downloaded_files[i].present
                        /\ t = downloaded_files[i].buffer_task
                        /\ buffer_tasks[t].ident = i
                        /\ buffer_tasks'[t] = [ident |-> i, status |-> "cancelled"]]_vars

\* Reached: skip_current has cancelled the fetch of one identifier while the
\* fetch of another identifier is running, its record still buffering.
C25_Witness ==
    \E i \in Idents, j \in Idents :
        /\ i # j /\ i \in skip_setters
        /\ downloaded_files[i].present /\ downloaded_files[i].buffer_task # NoTask
        /\ buffer_tasks[downloaded_files[i].buffer_task].status = "cancelled"
        /\ FetchRunning(j)
        /\ downloaded_files[j].buffering /\ ~downloaded_files[j].ready

\* No fetch of i is in progress (no task is running and no buffer() call is
\* still awaiting one) and no player launched for i is running.
Quiet(i) ==
    /\ RunningFetches(i) = {}
    /\ \A p \in Procs : ~InBuffer(p, i)
    /\ \A p \in Procs : call[p].ident = i => mpv[p] \notin {"live", "killed"}

\* The Buffering State of a record: buffering, complete, failed, readiness
\* signal.
BufferingState(d) ==
    [buffering |-> d.buffering, complete |-> d.complete, failed |-> d.failed, ready |-> d.ready]

\* C26: skip_current(i) run when no fetch is in progress and no player is
\* running for i leaves the Buffering State of i and the set of records of
\* the map unchanged.
C26_SkipNoOp ==
    [][\A i \in Idents :
          SkipRuns(i) /\ Quiet(i) =>
              /\ \A j \in Idents : downloaded_files'[j].present = downloaded_files[j].present
              /\ BufferingState(downloaded_files'[i]) = BufferingState(downloaded_files[i])]_vars

\* A buffer(i) call of caller p goes through the locked section of buffer()
\* (lines 203-205) in this step: at once, or after it was queued for the lock.
BufferCallRuns(p, i) ==
    \/ LockFree(lock_waiters) /\ Buffer(p, i)
    \/ call[p].op = "buffer" /\ call[p].ident = i /\ AcquireBuffer(p)

\* C27: a buffer() call for an identifier whose record is failed (the record
\* was not removed by play()) returns without starting a fetch, and the
\* record stays failed with the readiness signal set.
C27_NoAutomaticRetry ==
    [][\A p \in Procs, i \in Idents :
          /\ downloaded_files[i].present /\ downloaded_files[i].failed
          /\ BufferCallRuns(p, i)
          => /\ ~FetchStarts(i)
             /\ call'[p].pc = "done" /\ call'[p].result = "returned"
             /\ downloaded_files'[i].present
             /\ downloaded_files'[i].failed
             /\ downloaded_files'[i].ready]_vars

====
